---- MODULE Spec2Model ----
(***************************************************************************)
(* populate_db.py: the synthetic data generator (products, customers,      *)
(* orders, order items) and its load into the four-table Postgres schema.  *)
(*                                                                         *)
(* Money is counted in units of 1/RngMod cent, the resolution at which     *)
(* random.uniform(50, 10000) returns amounts, so that every amount the     *)
(* program computes is a whole number of units and round(x, 2) is a real   *)
(* operation: it maps an amount to the nearest whole cent, an amount       *)
(* exactly between two cents to the even one.  Dates are day offsets from  *)
(* 2022-01-01 and timestamps are clock ticks.  Names and emails are        *)
(* sequences of one-character strings; all other text is a TLA+ string.    *)
(*                                                                         *)
(* The module-level generator of Python's random is a state `rng`; every   *)
(* call of random.* advances it once and reads the new state as the        *)
(* fraction rng / RngMod of [0, 1).  random.seed(s) sets the state, so     *)
(* two processes with the same seed draw the same stream.                  *)
(***************************************************************************)
EXTENDS Integers, Sequences, FiniteSets, TLC

VARIABLES
    entry,        \* how the module is used: "main", "orders_call", "customer_call"
    pc,           \* position of the running code
    seed,         \* the argument of random.seed
    rng,          \* state of the random module's generator
    now,          \* the wall clock datetime.utcnow() reads
    num_records,  \* NUM_RECORDS
    products,     \* main: products
    csv_rows,     \* rows written to PRODUCTS_CSV_FILE
    customers,    \* main: customers; or the records returned to a direct caller
    call_ids,     \* customer_call: the ids the caller passes to generate_customer
    customer_ids, \* generate_orders_and_items: argument
    product_ids,  \* generate_orders_and_items: argument
    num_orders,   \* generate_orders_and_items: argument
    num_items,    \* generate_orders_and_items: argument
    orders,       \* generate_orders_and_items: local, returned
    order_items,  \* generate_orders_and_items: local, returned
    weights,      \* generate_orders_and_items: local
    item_id,      \* generate_orders_and_items: local
    remaining,    \* generate_orders_and_items: local
    conn,         \* the psycopg2 connection: "none", "open", "closed"
    sink,         \* the database: committed contents of the four tables
    error,        \* the exception that ended the run, or "none"
    run,          \* number of the process running main (1 = first run)
    prev          \* what the previous process left: its batches, the sink, its outcome

vars == << entry, pc, seed, rng, now, num_records, products, csv_rows, customers,
           call_ids, customer_ids, product_ids, num_orders, num_items, orders,
           order_items, weights, item_id, remaining, conn, sink, error, run, prev >>

(***************************************************************************)
(* Bounds of the model.                                                    *)
(***************************************************************************)
MaxRecords == 2       \* NUM_RECORDS ranges over 1..MaxRecords
MaxSeed == 5          \* seeds 0..MaxSeed
RngMod == 64          \* resolution of the generator: fractions k / RngMod
MaxClock == 1         \* clock ticks 0..MaxClock
MaxRuns == 2          \* processes that run main one after the other
MaxListLen == 2       \* length of the id lists a direct caller passes
MaxOrders == 2        \* num_orders of a direct call: 0..MaxOrders
MaxItems == 4         \* num_items of a direct call: -1..MaxItems
MaxCustomerId == 12   \* customer ids of a direct generate_customer call

(***************************************************************************)
(* Python built-ins.                                                       *)
(***************************************************************************)
Min(a, b) == IF a <= b THEN a ELSE b

Max(a, b) == IF a >= b THEN a ELSE b

\* one cent, in units
Cent == RngMod

\* an amount of n shillings, in units
Shillings(n) == n * 100 * Cent

\* round(x, 2) of a non-negative amount: the nearest whole cent, and of the
\* two nearest the even one when x lies exactly between them
Round2(x) ==
    LET q == x \div Cent
        rem == x % Cent
        up == \/ 2 * rem > Cent
              \/ 2 * rem = Cent /\ q % 2 = 1
    IN  Cent * (IF up THEN q + 1 ELSE q)

DigitChars == << "0", "1", "2", "3", "4", "5", "6", "7", "8", "9" >>

\* str(n) for n >= 0, as a sequence of characters.
RECURSIVE Str(_)
Str(n) ==
    IF n < 10 THEN << DigitChars[n + 1] >>
    ELSE Str(n \div 10) \o << DigitChars[(n % 10) + 1] >>

UpperChars == << "A", "B", "C", "D", "E", "F", "G", "H", "I", "J", "K", "L", "M",
                 "N", "O", "P", "Q", "R", "S", "T", "U", "V", "W", "X", "Y", "Z" >>

LowerChars == << "a", "b", "c", "d", "e", "f", "g", "h", "i", "j", "k", "l", "m",
                 "n", "o", "p", "q", "r", "s", "t", "u", "v", "w", "x", "y", "z" >>

\* str.lower(): every upper-case letter is replaced, everything else kept.
Lower(s) ==
    [ i \in 1..Len(s) |->
        IF \E k \in 1..Len(UpperChars) : UpperChars[k] = s[i]
        THEN LowerChars[CHOOSE k \in 1..Len(UpperChars) : UpperChars[k] = s[i]]
        ELSE s[i] ]

(***************************************************************************)
(* The random module.  Each operator takes the generator state r that the  *)
(* call produced (the state after its one step).                           *)
(***************************************************************************)
RngStep(s) == (5 * s + 3) % RngMod

RECURSIVE RngAt(_, _)
\* the state after k calls
RngAt(s, k) == IF k = 0 THEN s ELSE RngStep(RngAt(s, k - 1))

\* random.seed(a)
random_seed(a) == a % RngMod

\* random.choice(seq), seq not empty
random_choice(seq, r) == seq[((r * Len(seq)) \div RngMod) + 1]

\* random.randint(a, b)
random_randint(a, b, r) == a + ((r * (b - a + 1)) \div RngMod)

\* random.uniform(a, b) = a + (b - a) * random(), a and b in shillings;
\* the result is an exact amount in units
random_uniform(a, b, r) == Shillings(a) + (Shillings(b - a) \div RngMod) * r

RECURSIVE Accumulate(_, _)
\* itertools.accumulate(w)[k]: the sum of the first k weights
Accumulate(w, k) == IF k = 0 THEN 0 ELSE Accumulate(w, k - 1) + w[k]

\* random.choices(population, weights=w, k=1)[0], population not empty:
\* bisect(cum_weights, random() * total, 0, n - 1)
random_choices(population, w, r) ==
    LET n == Len(population)
        total == Accumulate(w, n)
        idx == Cardinality({ j \in 1..(n - 1) :
                               Accumulate(w, j) * RngMod <= r * total })
    IN  population[idx + 1]

(***************************************************************************)
(* Module data.                                                            *)
(***************************************************************************)
KENYAN_ESTATES ==
    [ c \in { "Nairobi", "Mombasa", "Kisumu", "Nakuru", "Kiambu", "Machakos",
              "Kajiado", "Uasin Gishu", "Kericho" } |->
        CASE c = "Nairobi" -> << "Kileleshwa", "Karen", "Umoja", "Embakasi",
                                 "South B", "Lavington", "Rongai" >>
          [] c = "Mombasa" -> << "Kizingo", "Nyali", "Likoni", "Shanzu", "Bamburi" >>
          [] c = "Kisumu" -> << "Nyalenda", "Milimani", "Manyatta", "Nyamasaria" >>
          [] c = "Nakuru" -> << "Section 58", "Kiamunyi", "Naka", "Barut" >>
          [] c = "Kiambu" -> << "Ruiru", "Thika Road", "Kahawa Sukari", "Githurai" >>
          [] c = "Machakos" -> << "Kalulini", "Mlolongo", "Syokimau", "Athi River" >>
          [] c = "Kajiado" -> << "Kitengela", "Ongata Rongai", "Ngong", "Isinya" >>
          [] c = "Uasin Gishu" -> << "Elgon View", "Kapseret", "Pioneer" >>
          [] c = "Kericho" -> << "Kapsoit", "Ainamoi", "Kipkelion" >> ]

DEFAULT_ESTATES == << "CBD", "Main Street", "Market Area" >>

POSTAL_CODES == << "00100", "20100", "40100", "80100", "30100",
                   "90100", "70100", "50100", "60100" >>

PRODUCT_CATALOG_SEEDS ==
    << << "Electronics", << "Smart TV 43\"", "Smartphone Model X",
                            "Bluetooth Speaker", "Laptop Slim" >> >>,
       << "Grocery", << "Maize Flour 2kg", "Basmati Rice 5kg", "Sugar 2kg", "Milk 1L" >> >>,
       << "Furniture", << "Dining Table", "Office Chair", "Sofa 3-seater",
                          "Coffee Table" >> >>,
       << "Clothing", << "Kitenge Dress", "Safari Boot", "School Uniform",
                         "Sports Jersey" >> >>,
       << "Beverages", << "Coca-Cola 500ml", "Mineral Water 1L", "Tusker Lager 500ml",
                          "Juice 1L" >> >> >>

DESCRIPTORS == << "Classic", "Pro", "2024 Edition", "Limited", "Value", "Deluxe", "Mini" >>

SOURCE_SYSTEMS == << "CSV", "API" >>

\* name_generator.county_name_mapping: the counties the name provider knows, each
\* with the first and last names it draws from.
county_name_mapping ==
    [ c \in { "Nairobi", "Mombasa", "Turkana" } |->
        CASE c = "Nairobi" ->
               [ first |-> << << "A", "n", "n" >>, << "A", "N", "N" >> >>,
                 last |-> << << "K", "a", "m", "a", "u" >>, << "O", "m", "a", "r" >> >> ]
          [] c = "Mombasa" ->
               [ first |-> << << "A", "l", "i" >>, << "A", "n", "n" >> >>,
                 last |-> << << "O", "m", "a", "r" >>, << "K", "a", "m", "a", "u" >> >> ]
          [] c = "Turkana" ->
               [ first |-> << << "E", "k", "a", "l" >> >>,
                 last |-> << << "L", "o", "k", "a", "i" >>, << "O", "m", "a", "r" >> >> ] ]

\* list(county_name_mapping.keys())
county_keys == << "Nairobi", "Mombasa", "Turkana" >>

\* name_generator.generate_county_based_name(county): two draws, r1 and r2
generate_county_based_name(county, r1, r2) ==
    [ first_name |-> random_choice(county_name_mapping[county].first, r1),
      last_name |-> random_choice(county_name_mapping[county].last, r2) ]

(***************************************************************************)
(* Generators.  s is the generator state at the call, t the clock reading  *)
(* of the call's datetime.utcnow().                                        *)
(***************************************************************************)
generate_postal_code(r) == random_choice(POSTAL_CODES, r)

\* generate_kenyan_phone: nine draws, the states after s
generate_kenyan_phone(s) ==
    LET digit(k) == DigitChars[random_randint(0, 9, RngAt(s, k)) + 1]
    IN  random_choice(<< "07", "01" >>, RngAt(s, 1))
          \o digit(2) \o digit(3) \o digit(4) \o digit(5)
          \o digit(6) \o digit(7) \o digit(8) \o digit(9)

\* calls of random.* in one generate_product
ProductDraws == 6

generate_product(product_id, s, t) ==
    LET seed_pair == random_choice(PRODUCT_CATALOG_SEEDS, RngAt(s, 1))
        base_name == random_choice(seed_pair[2], RngAt(s, 2))
        descriptor == random_choice(DESCRIPTORS, RngAt(s, 3))
    IN  [ product_id |-> product_id,
          product_name |-> base_name \o " " \o descriptor,
          price |-> Round2(random_uniform(50, 10000, RngAt(s, 4))),
          stock_quantity |-> random_randint(0, 500, RngAt(s, 5)),
          source_system |-> random_choice(SOURCE_SYSTEMS, RngAt(s, 6)),
          created_at |-> t ]

\* the email without the customer id
customer_email_without_id(first_name, last_name, customer_id) ==
    Lower(first_name) \o << "." >> \o Lower(last_name)
      \o << "@", "e", "x", "a", "m", "p", "l", "e", ".", "c", "o", "m" >>

\* the email of generate_customer
customer_email(first_name, last_name, customer_id) ==
    Lower(first_name) \o << "." >> \o Lower(last_name) \o Str(customer_id)
      \o << "@", "e", "x", "a", "m", "p", "l", "e", ".", "c", "o", "m" >>

\* calls of random.* in one generate_customer, the name provider's two included
CustomerDraws == 15

generate_customer(customer_id, s, t) ==
    LET county == random_choice(county_keys, RngAt(s, 1))
        person == generate_county_based_name(county, RngAt(s, 2), RngAt(s, 3))
        estates == IF county \in DOMAIN KENYAN_ESTATES
                   THEN KENYAN_ESTATES[county] ELSE DEFAULT_ESTATES
        estate_name == random_choice(estates, RngAt(s, 4))
        phone == generate_kenyan_phone(RngAt(s, 4))
        postal_code == generate_postal_code(RngAt(s, 14))
        box == random_randint(100, 9999, RngAt(s, 15))
    IN  [ customer_id |-> customer_id,
          first_name |-> person.first_name,
          last_name |-> person.last_name,
          email |-> customer_email(person.first_name, person.last_name, customer_id),
          phone |-> phone,
          address_line1 |-> << estate_name, ", ", county >>,
          address_line2 |-> << "P.O. Box ", Str(box), "-", postal_code, ", ", county >>,
          city |-> county,
          country |-> "Kenya",
          created_at |-> t ]

\* datetime.utcnow(): the clock may have advanced since the last reading
ClockReadings == now .. Min(now + 1, MaxClock)

(***************************************************************************)
(* generate_orders_and_items: its pieces.                                  *)
(***************************************************************************)
\* total_amount = None
None == -1

\* (end_date - start_date).days + 1, from 2022-01-01 to 2025-10-30
total_days == 1399

\* the literal of `if pid <= 400`
StapleCutoff == 400

\* one iteration of the order skeleton loop: two draws
new_order(oid, cids, s) ==
    [ order_id |-> oid,
      customer_id |-> random_choice(cids, RngAt(s, 1)),
      order_date |-> random_randint(0, total_days - 1, RngAt(s, 2)),
      total_amount |-> None ]

\* the weights with the staple tier taken by position in the list
product_weights_by_position(pids) ==
    [ i \in 1..Len(pids) |-> IF i <= StapleCutoff THEN 3 ELSE 1 ]

\* the weights loop
product_weights(pids) ==
    [ i \in 1..Len(pids) |-> IF pids[i] <= StapleCutoff THEN 3 ELSE 1 ]

\* the item with the item id written into order_id
new_order_item_by_item_id(iid, oid, pids, w, s) ==
    LET quantity == random_randint(1, 5, RngAt(s, 2))
        unit_price == Round2(random_uniform(50, 10000, RngAt(s, 3)))
    IN  [ order_item_id |-> iid,
          order_id |-> iid,
          product_id |-> random_choices(pids, w, RngAt(s, 1)),
          quantity |-> quantity,
          unit_price |-> unit_price,
          subtotal |-> Round2(unit_price * quantity) ]

\* the item of one iteration of either item loop: three draws after s
new_order_item(iid, oid, pids, w, s) ==
    LET quantity == random_randint(1, 5, RngAt(s, 2))
        unit_price == Round2(random_uniform(50, 10000, RngAt(s, 3)))
    IN  [ order_item_id |-> iid,
          order_id |-> oid,
          product_id |-> random_choices(pids, w, RngAt(s, 1)),
          quantity |-> quantity,
          unit_price |-> unit_price,
          subtotal |-> Round2(unit_price * quantity) ]

\* remaining without the items of the mandatory pass
fill_count_ignoring_mandatory(n_items, items) == Max(0, n_items)

\* remaining = max(0, num_items - len(order_items))
fill_count(n_items, items) == Max(0, n_items - Len(items))

\* totals[...] = subtotal in place of +=
add_subtotal_overwrite(t, oi) ==
    LET base == IF oi.order_id \in DOMAIN t THEN t ELSE t @@ (oi.order_id :> 0)
    IN  [ base EXCEPT ![oi.order_id] = oi.subtotal ]

\* totals[oi["order_id"]] after setdefault and +=
add_subtotal(t, oi) ==
    LET base == IF oi.order_id \in DOMAIN t THEN t ELSE t @@ (oi.order_id :> 0)
    IN  [ base EXCEPT ![oi.order_id] = @ + oi.subtotal ]

RECURSIVE order_totals(_, _)
\* the totals dict after the first k order items
order_totals(items, k) ==
    IF k = 0 THEN << >>
    ELSE add_subtotal(order_totals(items, k - 1), items[k])

\* the write-back loop over orders
reconcile(os, items) ==
    LET totals == order_totals(items, Len(items))
    IN  [ i \in 1..Len(os) |->
            [ os[i] EXCEPT !.total_amount = Round2(totals[os[i].order_id]) ] ]

(***************************************************************************)
(* The database.  A table is a function from primary key to row.           *)
(***************************************************************************)
EmptySink ==
    [ tables_exist |-> FALSE, products |-> << >>, customers |-> << >>,
      orders |-> << >>, order_items |-> << >> ]

RECURSIVE insert_or_skip(_, _, _, _)
\* INSERT ... ON CONFLICT DO NOTHING of the first k rows
insert_or_skip(table, key, values, k) ==
    IF k = 0 THEN table
    ELSE LET t == insert_or_skip(table, key, values, k - 1)
             row == values[k]
         IN  IF row[key] \in DOMAIN t THEN t ELSE t @@ (row[key] :> row)

\* the table after batch_insert's execute_values and commit
batch_insert(table, key, values) == insert_or_skip(table, key, values, Len(values))

\* FOREIGN KEY (col) REFERENCES ref: what the insert of values requires
foreign_key_ok(values, col, ref) ==
    \A i \in 1..Len(values) : values[i][col] \in DOMAIN ref

\* the tables left as they are
truncated_nothing(db) == db

\* TRUNCATE TABLE order_items, orders, customers, products
truncated(db) ==
    [ db EXCEPT !.products = << >>, !.customers = << >>,
                !.orders = << >>, !.order_items = << >> ]

\* row["created_at"].isoformat() of the CSV export
csv_row(p) == [ p EXCEPT !.created_at = Str(p.created_at) ]

(***************************************************************************)
(* Initial states: the process is started as a script (main), or a caller  *)
(* imports the module and calls generate_orders_and_items or               *)
(* generate_customer.  Importing the module runs random.seed.              *)
(***************************************************************************)
NoError == [ type |-> "none", at |-> "none" ]

NoPrev ==
    [ outcome |-> "none", products |-> << >>, customers |-> << >>,
      orders |-> << >>, order_items |-> << >>, sink |-> EmptySink ]

\* the lists over pool of length at most MaxListLen
IdLists(pool) == UNION { [ 1..n -> pool ] : n \in 0..MaxListLen }

gen_vars == << customer_ids, product_ids, num_orders, num_items, orders,
               order_items, weights, item_id, remaining >>

main_vars == << num_records, products, csv_rows >>

db_vars == << conn, sink >>

proc_vars == << entry, seed, run, prev >>

InitCommon ==
    /\ seed \in 0..MaxSeed
    /\ rng = random_seed(seed)
    /\ now = 0
    /\ products = << >>
    /\ csv_rows = << >>
    /\ customers = << >>
    /\ orders = << >>
    /\ order_items = << >>
    /\ weights = << >>
    /\ item_id = 0
    /\ remaining = 0
    /\ conn = "none"
    /\ sink = EmptySink
    /\ error = NoError
    /\ run = 1
    /\ prev = NoPrev

InitMain ==
    /\ InitCommon
    /\ entry = "main"
    /\ pc = "products"
    /\ num_records \in 1..MaxRecords
    /\ call_ids = << >>
    /\ customer_ids = << >>
    /\ product_ids = << >>
    /\ num_orders = 0
    /\ num_items = 0

InitOrdersCall ==
    /\ InitCommon
    /\ entry = "orders_call"
    /\ pc = "skeleton"
    /\ num_records = 0
    /\ call_ids = << >>
    /\ customer_ids \in IdLists({ 1, 2 })
    /\ product_ids \in IdLists({ 1, StapleCutoff, StapleCutoff + 1 })
    /\ num_orders \in 0..MaxOrders
    /\ num_items \in -1..MaxItems

InitCustomerCall ==
    /\ InitCommon
    /\ entry = "customer_call"
    /\ pc = "customer_call"
    /\ num_records = 0
    /\ call_ids \in { << a, b >> : a \in 1..MaxCustomerId, b \in 1..MaxCustomerId }
    /\ customer_ids = << >>
    /\ product_ids = << >>
    /\ num_orders = 0
    /\ num_items = 0

Init == InitMain \/ InitOrdersCall \/ InitCustomerCall

(***************************************************************************)
(* main: generation.                                                       *)
(***************************************************************************)
\* one iteration of [generate_product(pid) for pid in range(1, NUM_RECORDS + 1)]
GenerateProduct ==
    /\ pc = "products"
    /\ \E t \in ClockReadings :
         /\ products' = Append(products, generate_product(Len(products) + 1, rng, t))
         /\ now' = t
    /\ rng' = RngAt(rng, ProductDraws)
    /\ pc' = IF Len(products) + 1 = num_records THEN "csv" ELSE "products"
    /\ UNCHANGED << num_records, csv_rows, customers, call_ids, gen_vars, db_vars,
                    error, proc_vars >>

\* the rows of the CSV export
WriteProductsCsv ==
    /\ pc = "csv"
    /\ csv_rows' = [ i \in 1..Len(products) |-> csv_row(products[i]) ]
    /\ pc' = "customers"
    /\ UNCHANGED << rng, now, num_records, products, customers, call_ids, gen_vars,
                    db_vars, error, proc_vars >>

\* one iteration of [generate_customer(cid) for cid in range(1, NUM_RECORDS + 1)]
GenerateCustomer ==
    /\ pc = "customers"
    /\ \E t \in ClockReadings :
         /\ customers' = Append(customers, generate_customer(Len(customers) + 1, rng, t))
         /\ now' = t
    /\ rng' = RngAt(rng, CustomerDraws)
    /\ pc' = IF Len(customers) + 1 = num_records THEN "call_orders" ELSE "customers"
    /\ UNCHANGED << main_vars, call_ids, gen_vars, db_vars, error, proc_vars >>

\* a direct caller's generate_customer(call_ids[k])
CallGenerateCustomer ==
    /\ pc = "customer_call"
    /\ \E t \in ClockReadings :
         /\ customers' = Append(customers,
                                generate_customer(call_ids[Len(customers) + 1], rng, t))
         /\ now' = t
    /\ rng' = RngAt(rng, CustomerDraws)
    /\ pc' = IF Len(customers) + 1 = Len(call_ids) THEN "returned" ELSE "customer_call"
    /\ UNCHANGED << main_vars, call_ids, gen_vars, db_vars, error, proc_vars >>

\* main's call generate_orders_and_items(customer_ids, product_ids, NUM_RECORDS, NUM_RECORDS)
CallGenerateOrders ==
    /\ pc = "call_orders"
    /\ product_ids' = [ i \in 1..Len(products) |-> products[i].product_id ]
    /\ customer_ids' = [ i \in 1..Len(customers) |-> customers[i].customer_id ]
    /\ num_orders' = num_records
    /\ num_items' = num_records
    /\ pc' = "skeleton"
    /\ UNCHANGED << rng, now, main_vars, customers, call_ids, orders, order_items,
                    weights, item_id, remaining, db_vars, error, proc_vars >>

(***************************************************************************)
(* generate_orders_and_items.                                              *)
(***************************************************************************)
args_vars == << customer_ids, product_ids, num_orders, num_items >>

\* one iteration of the skeleton loop
SkeletonOrder ==
    /\ pc = "skeleton"
    /\ Len(orders) < num_orders
    /\ customer_ids # << >>
    /\ orders' = Append(orders, new_order(Len(orders) + 1, customer_ids, rng))
    /\ rng' = RngAt(rng, 2)
    /\ UNCHANGED << pc, now, main_vars, customers, call_ids, args_vars, order_items,
                    weights, item_id, remaining, db_vars, error, proc_vars >>

\* random.choice(customer_ids) on an empty list raises IndexError
SkeletonOrderRaises ==
    /\ pc = "skeleton"
    /\ Len(orders) < num_orders
    /\ customer_ids = << >>
    /\ pc' = "error"
    /\ error' = [ type |-> "IndexError", at |-> "skeleton" ]
    /\ UNCHANGED << rng, now, main_vars, customers, call_ids, gen_vars, db_vars,
                    proc_vars >>

\* the weights loop with the item counter started at 0
BuildWeightsFromZero ==
    /\ pc = "skeleton"
    /\ Len(orders) >= num_orders
    /\ weights' = product_weights(product_ids)
    /\ item_id' = 0
    /\ pc' = "mandatory"
    /\ UNCHANGED << rng, now, main_vars, customers, call_ids, args_vars, orders,
                    order_items, remaining, db_vars, error, proc_vars >>

\* the skeleton loop is over: the weights loop and item_id = 1
BuildWeights ==
    /\ pc = "skeleton"
    /\ Len(orders) >= num_orders
    /\ weights' = product_weights(product_ids)
    /\ item_id' = 1
    /\ pc' = "mandatory"
    /\ UNCHANGED << rng, now, main_vars, customers, call_ids, args_vars, orders,
                    order_items, remaining, db_vars, error, proc_vars >>

\* the mandatory pass with the order drawn as in the fill pass
MandatoryItemRandomOrder ==
    /\ pc = "mandatory"
    /\ Len(order_items) < Len(orders)
    /\ product_ids # << >>
    /\ order_items' = Append(order_items,
                             new_order_item(item_id,
                                            random_choice(orders, RngAt(rng, 1)).order_id,
                                            product_ids, weights, RngAt(rng, 1)))
    /\ item_id' = item_id + 1
    /\ rng' = RngAt(rng, 4)
    /\ UNCHANGED << pc, now, main_vars, customers, call_ids, args_vars, orders,
                    weights, remaining, db_vars, error, proc_vars >>

\* one iteration of `for order in orders`
MandatoryItem ==
    /\ pc = "mandatory"
    /\ Len(order_items) < Len(orders)
    /\ product_ids # << >>
    /\ order_items' = Append(order_items,
                             new_order_item(item_id, orders[Len(order_items) + 1].order_id,
                                            product_ids, weights, rng))
    /\ item_id' = item_id + 1
    /\ rng' = RngAt(rng, 3)
    /\ UNCHANGED << pc, now, main_vars, customers, call_ids, args_vars, orders,
                    weights, remaining, db_vars, error, proc_vars >>

\* random.choices on an empty product list raises IndexError
MandatoryItemRaises ==
    /\ pc = "mandatory"
    /\ Len(order_items) < Len(orders)
    /\ product_ids = << >>
    /\ pc' = "error"
    /\ error' = [ type |-> "IndexError", at |-> "mandatory" ]
    /\ UNCHANGED << rng, now, main_vars, customers, call_ids, gen_vars, db_vars,
                    proc_vars >>

\* the mandatory loop is over: remaining = max(0, num_items - len(order_items))
ComputeRemaining ==
    /\ pc = "mandatory"
    /\ Len(order_items) >= Len(orders)
    /\ remaining' = fill_count(num_items, order_items)
    /\ pc' = "fill"
    /\ UNCHANGED << rng, now, main_vars, customers, call_ids, args_vars, orders,
                    order_items, weights, item_id, db_vars, error, proc_vars >>

\* one iteration of `for _ in range(remaining)`: four draws
FillItem ==
    /\ pc = "fill"
    /\ remaining > 0
    /\ orders # << >>
    /\ order_items' = Append(order_items,
                             new_order_item(item_id,
                                            random_choice(orders, RngAt(rng, 1)).order_id,
                                            product_ids, weights, RngAt(rng, 1)))
    /\ item_id' = item_id + 1
    /\ remaining' = remaining - 1
    /\ rng' = RngAt(rng, 4)
    /\ UNCHANGED << pc, now, main_vars, customers, call_ids, args_vars, orders,
                    weights, db_vars, error, proc_vars >>

\* random.choice(orders) on an empty list raises IndexError
FillItemRaises ==
    /\ pc = "fill"
    /\ remaining > 0
    /\ orders = << >>
    /\ pc' = "error"
    /\ error' = [ type |-> "IndexError", at |-> "fill" ]
    /\ UNCHANGED << rng, now, main_vars, customers, call_ids, gen_vars, db_vars,
                    proc_vars >>

\* the fill loop is over: totals, the write-back of total_amount, and the return
Reconcile ==
    /\ pc = "fill"
    /\ remaining = 0
    /\ orders' = reconcile(orders, order_items)
    /\ pc' = IF entry = "main" THEN "connect" ELSE "returned"
    /\ UNCHANGED << rng, now, main_vars, customers, call_ids, args_vars, order_items,
                    weights, item_id, remaining, db_vars, error, proc_vars >>

(***************************************************************************)
(* main: the load.  Every statement sent to the database may fail; a       *)
(* failure inside the try block leaves through `finally: conn.close()`,    *)
(* which discards the transaction that was not committed.                  *)
(***************************************************************************)
gen_out_vars == << customers, call_ids, gen_vars >>

\* psycopg2.connect(SUPABASE_DB_URL)
Connect ==
    /\ pc = "connect"
    /\ conn' = "open"
    /\ pc' = "create_tables"
    /\ UNCHANGED << rng, now, main_vars, gen_out_vars, sink, error, proc_vars >>

\* psycopg2.connect raises: main is left before the try block
ConnectFails ==
    /\ pc = "connect"
    /\ pc' = "failed"
    /\ error' = [ type |-> "OperationalError", at |-> "connect" ]
    /\ UNCHANGED << rng, now, main_vars, gen_out_vars, db_vars, proc_vars >>

CreateTablesIfNotExist ==
    /\ pc = "create_tables"
    /\ sink' = [ sink EXCEPT !.tables_exist = TRUE ]
    /\ pc' = "clear_tables"
    /\ UNCHANGED << rng, now, main_vars, gen_out_vars, conn, error, proc_vars >>

ClearTables ==
    /\ pc = "clear_tables"
    /\ sink' = truncated(sink)
    /\ pc' = "insert_products"
    /\ UNCHANGED << rng, now, main_vars, gen_out_vars, conn, error, proc_vars >>

InsertProducts ==
    /\ pc = "insert_products"
    /\ sink' = [ sink EXCEPT !.products = batch_insert(@, "product_id", products) ]
    /\ pc' = "insert_customers"
    /\ UNCHANGED << rng, now, main_vars, gen_out_vars, conn, error, proc_vars >>

InsertCustomers ==
    /\ pc = "insert_customers"
    /\ sink' = [ sink EXCEPT !.customers = batch_insert(@, "customer_id", customers) ]
    /\ pc' = "insert_orders"
    /\ UNCHANGED << rng, now, main_vars, gen_out_vars, conn, error, proc_vars >>

InsertOrders ==
    /\ pc = "insert_orders"
    /\ foreign_key_ok(orders, "customer_id", sink.customers)
    /\ sink' = [ sink EXCEPT !.orders = batch_insert(@, "order_id", orders) ]
    /\ pc' = "insert_order_items"
    /\ UNCHANGED << rng, now, main_vars, gen_out_vars, conn, error, proc_vars >>

InsertOrderItems ==
    /\ pc = "insert_order_items"
    /\ foreign_key_ok(order_items, "order_id", sink.orders)
    /\ foreign_key_ok(order_items, "product_id", sink.products)
    /\ sink' = [ sink EXCEPT !.order_items = batch_insert(@, "order_item_id", order_items) ]
    /\ pc' = "close"
    /\ UNCHANGED << rng, now, main_vars, gen_out_vars, conn, error, proc_vars >>

\* the try block ended normally: finally: conn.close()
CloseConnection ==
    /\ pc = "close"
    /\ conn' = "closed"
    /\ pc' = "done"
    /\ UNCHANGED << rng, now, main_vars, gen_out_vars, sink, error, proc_vars >>

DbSteps == { "create_tables", "clear_tables", "insert_products", "insert_customers",
             "insert_orders", "insert_order_items" }

\* a statement raises and the connection is left open
DbOperationFailsNoClose ==
    /\ pc \in DbSteps
    /\ pc' = "failed"
    /\ error' = [ type |-> "SinkError", at |-> pc ]
    /\ UNCHANGED << rng, now, main_vars, gen_out_vars, db_vars, proc_vars >>

\* a statement raises: nothing of it is committed, finally closes the connection,
\* the exception leaves main
DbOperationFails ==
    /\ pc \in DbSteps
    /\ conn' = "closed"
    /\ pc' = "failed"
    /\ error' = [ type |-> "SinkError", at |-> pc ]
    /\ UNCHANGED << rng, now, main_vars, gen_out_vars, sink, proc_vars >>

\* the script is started again: a new process with the same seed and configuration;
\* the database and the clock are what the previous process left
Rerun ==
    /\ entry = "main"
    /\ pc \in { "done", "failed" }
    /\ run < MaxRuns
    /\ prev' = [ outcome |-> pc, products |-> products, customers |-> customers,
                 orders |-> orders, order_items |-> order_items, sink |-> sink ]
    /\ run' = run + 1
    /\ rng' = random_seed(seed)
    /\ products' = << >>
    /\ customers' = << >>
    /\ customer_ids' = << >>
    /\ product_ids' = << >>
    /\ num_orders' = 0
    /\ num_items' = 0
    /\ orders' = << >>
    /\ order_items' = << >>
    /\ weights' = << >>
    /\ item_id' = 0
    /\ remaining' = 0
    /\ conn' = "none"
    /\ error' = NoError
    /\ pc' = "products"
    /\ UNCHANGED << entry, seed, now, num_records, csv_rows, call_ids, sink >>

Next ==
    \/ GenerateProduct
    \/ WriteProductsCsv
    \/ GenerateCustomer
    \/ CallGenerateCustomer
    \/ CallGenerateOrders
    \/ SkeletonOrder
    \/ SkeletonOrderRaises
    \/ BuildWeights
    \/ MandatoryItem
    \/ MandatoryItemRaises
    \/ ComputeRemaining
    \/ FillItem
    \/ FillItemRaises
    \/ Reconcile
    \/ Connect
    \/ ConnectFails
    \/ CreateTablesIfNotExist
    \/ ClearTables
    \/ InsertProducts
    \/ InsertCustomers
    \/ InsertOrders
    \/ InsertOrderItems
    \/ CloseConnection
    \/ DbOperationFails
    \/ Rerun

Spec == Init /\ [][Next]_vars

(***************************************************************************)
(* Properties.                                                             *)
(***************************************************************************)
Range(f) == { f[i] : i \in DOMAIN f }

\* generate_orders_and_items has returned its batches (to main or to a direct caller)
AfterGeneration ==
    { "connect", "create_tables", "clear_tables", "insert_products", "insert_customers",
      "insert_orders", "insert_order_items", "close", "done", "failed" }

OrdersReturned ==
    \/ entry = "orders_call" /\ pc = "returned"
    \/ entry = "main" /\ pc \in AfterGeneration

OrderIds == { orders[j].order_id : j \in 1..Len(orders) }

\* the order items that reference order oid
ItemsOf(oid) == { i \in 1..Len(order_items) : order_items[i].order_id = oid }

RECURSIVE SubtotalSum(_, _)
\* the sum of the subtotals of the order items with the indices in S
SubtotalSum(S, k) ==
    IF k = 0 THEN 0
    ELSE SubtotalSum(S, k - 1) + (IF k \in S THEN order_items[k].subtotal ELSE 0)

\* C1: in the returned batches every order item's order_id is the id of a returned
\* order, every order item's product_id is in the product id list passed in, and
\* every order's customer_id is in the customer id list passed in.
C1_ReferentialIntegrity ==
    OrdersReturned =>
        /\ \A i \in 1..Len(order_items) :
             /\ order_items[i].order_id \in OrderIds
             /\ order_items[i].product_id \in Range(product_ids)
        /\ \A j \in 1..Len(orders) : orders[j].customer_id \in Range(customer_ids)

C1_Witness ==
    /\ entry = "orders_call"
    /\ pc = "returned"
    /\ Len(orders) >= 2
    /\ Len(order_items) > Len(orders)
    /\ Len(product_ids) >= 2
    /\ \E i \in 1..Len(order_items) : order_items[i].product_id > StapleCutoff

\* C2: after the return every order's total_amount is set, and it is the rounding
\* to 2 decimals of the sum of the subtotals of exactly the order items that
\* reference the order (mandatory and fill items alike); every subtotal is itself
\* the rounded quantity * unit_price of a rounded unit_price.
C2_TotalReconciliation ==
    OrdersReturned =>
        /\ \A j \in 1..Len(orders) :
             /\ orders[j].total_amount # None
             /\ orders[j].total_amount =
                  Round2(SubtotalSum(ItemsOf(orders[j].order_id), Len(order_items)))
        /\ \A i \in 1..Len(order_items) :
             /\ order_items[i].unit_price = Round2(order_items[i].unit_price)
             /\ order_items[i].subtotal =
                  Round2(order_items[i].unit_price * order_items[i].quantity)

C2_Witness ==
    /\ entry = "orders_call"
    /\ pc = "returned"
    /\ Len(orders) >= 2
    /\ \E j \in 1..Len(orders) :
         /\ Cardinality(ItemsOf(orders[j].order_id)) >= 2
         /\ orders[j].total_amount > order_items[j].subtotal

\* C3: once the mandatory pass is over, and so in the returned batches, every order
\* has at least one order item that references it, whatever num_items is.
C3_Coverage ==
    (OrdersReturned \/ pc = "fill") =>
        \A j \in 1..Len(orders) : ItemsOf(orders[j].order_id) # { }

C3_Witness ==
    /\ entry = "orders_call"
    /\ pc = "returned"
    /\ num_items < num_orders
    /\ num_items <= 0
    /\ Len(orders) >= 2

\* C4: ids are dense from 1 in every batch: the k-th product, customer (of main),
\* order and order item has id k, and the finished batches of main have
\* NUM_RECORDS products and customers, those of generate_orders_and_items
\* num_orders orders.
C4_DenseIds ==
    /\ entry = "main" =>
         /\ \A i \in 1..Len(products) : products[i].product_id = i
         /\ \A i \in 1..Len(customers) : customers[i].customer_id = i
         /\ pc \in AfterGeneration =>
              /\ Len(products) = num_records
              /\ Len(customers) = num_records
    /\ \A j \in 1..Len(orders) : orders[j].order_id = j
    /\ \A i \in 1..Len(order_items) : order_items[i].order_item_id = i
    /\ OrdersReturned => Len(orders) = num_orders

C4_Witness ==
    /\ entry = "orders_call"
    /\ pc = "returned"
    /\ Len(orders) >= 2
    /\ Len(order_items) >= Len(orders) + 2

\* C5 (as claimed): a second process with the same seed and configuration
\* generates the batches of the first, equal in every field.
C5_Determinism ==
    (entry = "main" /\ run >= 2 /\ pc \in AfterGeneration) =>
        /\ products = prev.products
        /\ customers = prev.customers
        /\ orders = prev.orders
        /\ order_items = prev.order_items

\* C6 (as claimed): with an empty customer or product id list the call never
\* returns batches, and with an empty product id list the error comes before any
\* order or order item exists.
C6_FailFast ==
    (entry = "orders_call" /\ (customer_ids = << >> \/ product_ids = << >>)) =>
        /\ pc # "returned"
        /\ (product_ids = << >> /\ pc = "error") =>
             (orders = << >> /\ order_items = << >>)

InsertSteps == { "insert_products", "insert_customers", "insert_orders",
                 "insert_order_items" }

InsertFailed == pc = "failed" /\ error.type = "SinkError" /\ error.at \in InsertSteps

\* C7 (as claimed): after a failed bulk insert the connection is closed and the
\* database holds none of the run's tables.
C7_NoPartialCommit ==
    InsertFailed =>
        /\ conn = "closed"
        /\ sink.products = << >>
        /\ sink.customers = << >>
        /\ sink.orders = << >>
        /\ sink.order_items = << >>

\* the rows of a table, in key order, are exactly the batch
Holds(table, batch) == DOMAIN table = 1..Len(batch) /\ \A k \in DOMAIN table : table[k] = batch[k]

\* C7 (amended): after a failed bulk insert the exception has left main, the
\* connection is closed, the failing batch and the batches after it are not in
\* the database at all (no row of them, no retry), and every batch inserted
\* before the failure is committed whole.
C7_BatchAtomicOnFailure ==
    InsertFailed =>
        /\ conn = "closed"
        /\ IF error.at = "insert_products"
           THEN sink.products = << >> ELSE Holds(sink.products, products)
        /\ IF error.at \in { "insert_products", "insert_customers" }
           THEN sink.customers = << >> ELSE Holds(sink.customers, customers)
        /\ IF error.at \in { "insert_products", "insert_customers", "insert_orders" }
           THEN sink.orders = << >> ELSE Holds(sink.orders, orders)
        /\ sink.order_items = << >>

C7_Witness ==
    /\ InsertFailed
    /\ error.at = "insert_orders"
    /\ Len(products) >= 2
    /\ Holds(sink.products, products)
    /\ Holds(sink.customers, customers)
    /\ sink.orders = << >>

\* C8 (as claimed): inserting rows whose keys exist changes nothing, and a second
\* run of main with the same seed on the database a first run filled ends with
\* the rows the first run left.
C8_RerunIdempotent ==
    (entry = "main" /\ pc = "done") =>
        /\ batch_insert(sink.products, "product_id", products) = sink.products
        /\ batch_insert(sink.customers, "customer_id", customers) = sink.customers
        /\ batch_insert(sink.orders, "order_id", orders) = sink.orders
        /\ batch_insert(sink.order_items, "order_item_id", order_items) = sink.order_items
        /\ (run >= 2 /\ prev.outcome = "done") => sink = prev.sink

\* C9: the returned order items are num_orders + max(0, num_items - num_orders)
\* many; item k of the first num_orders belongs to order k; with
\* num_items <= num_orders every order has exactly one item; with
\* num_items > num_orders the items num_orders+1..num_items belong to existing
\* orders and some order has more than one item.
C9_ItemDistribution ==
    OrdersReturned =>
        /\ Len(order_items) = num_orders + Max(0, num_items - num_orders)
        /\ \A k \in 1..num_orders : order_items[k].order_id = orders[k].order_id
        /\ num_items <= num_orders =>
             \A j \in 1..Len(orders) : Cardinality(ItemsOf(orders[j].order_id)) = 1
        /\ num_items > num_orders =>
             /\ Len(order_items) = num_items
             /\ \A k \in (num_orders + 1)..num_items :
                  /\ order_items[k].order_item_id = k
                  /\ order_items[k].order_id \in OrderIds
             /\ \E j \in 1..Len(orders) : Cardinality(ItemsOf(orders[j].order_id)) > 1

C9_Witness ==
    /\ entry = "orders_call"
    /\ pc = "returned"
    /\ num_orders >= 2
    /\ num_items >= num_orders + 2
    /\ \E j \in 1..Len(orders) : Cardinality(ItemsOf(orders[j].order_id)) = 1

\* C10: two generated customers with different ids have different emails,
\* whatever names the name provider returned for them.
C10_EmailsUnique ==
    \A i, j \in 1..Len(customers) :
        customers[i].customer_id # customers[j].customer_id =>
            customers[i].email # customers[j].email

C10_Witness ==
    /\ entry = "customer_call"
    /\ pc = "returned"
    /\ customers[1].customer_id = 1
    /\ customers[2].customer_id > 10
    /\ customers[2].customer_id % 10 = 1
    /\ Lower(customers[1].first_name) = Lower(customers[2].first_name)
    /\ Lower(customers[1].last_name) = Lower(customers[2].last_name)

\* the weights loop of generate_orders_and_items has run
WeightsBuilt ==
    \/ pc \in { "mandatory", "fill" }
    \/ OrdersReturned
    \/ pc = "error" /\ error.at # "skeleton"

\* the mandatory pass or the fill pass is about to draw its first product
PassBegins ==
    \/ pc = "mandatory" /\ order_items = << >>
    \/ pc = "fill" /\ Len(order_items) = Len(orders)

\* the product ids some draw of random.choices selects under the weights
Selectable ==
    { random_choices(product_ids, weights, r) : r \in 0..(RngMod - 1) }

\* C11 (as claimed): the weight vector has one entry per product id, 3 for the
\* ids at the first StapleCutoff positions of the list and 1 for all others, and
\* every product id of the list can be selected.
C11_WeightsByPosition ==
    WeightsBuilt =>
        /\ Len(weights) = Len(product_ids)
        /\ \A i \in 1..Len(weights) : weights[i] = (IF i <= StapleCutoff THEN 3 ELSE 1)
        /\ (PassBegins /\ product_ids # << >>) =>
             Range(product_ids) \subseteq Selectable

\* C11 (amended): the weight vector has one entry per product id, in input
\* order; the entry is 3 where the id itself is at most StapleCutoff and 1
\* otherwise, wherever the id stands in the list; so every weight is positive
\* and, when either pass begins (the list and the weights never change after
\* that), every product id of the list is selected by some draw.
C11_WeightsByIdValue ==
    WeightsBuilt =>
        /\ Len(weights) = Len(product_ids)
        /\ \A i \in 1..Len(weights) :
             /\ weights[i] = (IF product_ids[i] <= StapleCutoff THEN 3 ELSE 1)
             /\ weights[i] > 0
        /\ (PassBegins /\ product_ids # << >>) =>
             Range(product_ids) \subseteq Selectable

C11_Witness ==
    /\ entry = "orders_call"
    /\ pc = "returned"
    /\ Len(product_ids) >= 2
    /\ product_ids[1] > StapleCutoff
    /\ product_ids[2] <= StapleCutoff
    /\ weights[1] = 1
    /\ weights[2] = 3
    /\ \E i \in 1..Len(orders) : order_items[i].product_id = product_ids[1]
    /\ \E i \in (Len(orders) + 1)..Len(order_items) :
         order_items[i].product_id = product_ids[1]

\* C12: main clears the tables before its first insert and commits parents before
\* children (products, customers, orders, order_items); so in every state of a
\* run, also the one a failure leaves after any commit, each committed order's
\* customer and each committed order item's order and product are committed.
C12_ParentFirst ==
    /\ pc = "insert_products" =>
         /\ sink.products = << >>
         /\ sink.customers = << >>
         /\ sink.orders = << >>
         /\ sink.order_items = << >>
    /\ sink.customers # << >> => sink.products # << >>
    /\ sink.orders # << >> => sink.customers # << >>
    /\ sink.order_items # << >> => sink.orders # << >>
    /\ \A k \in DOMAIN sink.orders :
         sink.orders[k].customer_id \in DOMAIN sink.customers
    /\ \A k \in DOMAIN sink.order_items :
         /\ sink.order_items[k].order_id \in DOMAIN sink.orders
         /\ sink.order_items[k].product_id \in DOMAIN sink.products

C12_Witness ==
    /\ InsertFailed
    /\ error.at = "insert_order_items"
    /\ run = 2
    /\ prev.outcome = "done"
    /\ Len(orders) >= 2
    /\ Holds(sink.orders, orders)
    /\ sink.order_items = << >>

====
